---- MODULE Spec2Model ----
(***************************************************************************)
(* State-machine model of src/script.js, the block stacking game.          *)
(*                                                                         *)
(* Numbers.  The script computes with floating point numbers; the model    *)
(* computes with exact integers in fixed units:                            *)
(*   - a speed s is held as s * SpeedDen        (0.08  -> 40)              *)
(*   - a time in ms is held in units of 1/600 ms (16.67 -> 10002)          *)
(*   - deltaTime dt is held as its numerator dt * FRAME_MS                 *)
(*   - a horizontal position or a width p is held as p * PosUnit, where    *)
(*     PosUnit = SpeedDen * FRAME_MS * Scale, so that speed*direction*dt   *)
(*     is the integer speed * direction * dtNum * Scale, and Scale is a    *)
(*     power of two that keeps every delta / 2 of placeBlock exact.        *)
(* Rounding of IEEE doubles is therefore not modelled.                     *)
(*                                                                         *)
(* Objects.  A block object {mesh, width, depth, moving} is a record in    *)
(* the heap `blocks`; gameState.stack holds references (indexes into the   *)
(* heap) and gameState.currentBlock is a reference or NULL, so that the    *)
(* aliasing of the placed block by currentBlock is kept.  Of a mesh only   *)
(* position.x is kept: the vertical position, colour, scale, camera and    *)
(* sound only feed the renderer.                                           *)
(***************************************************************************)
EXTENDS Integers, Sequences, FiniteSets, TLC

VARIABLES
  blocks,          \* heap of block objects created by addBlock
  stack,           \* gameState.stack: references to blocks
  currentBlock,    \* gameState.currentBlock: a reference or NULL
  direction,       \* gameState.direction
  gameEnded,       \* gameState.gameEnded
  isPlacingBlock,  \* gameState.isPlacingBlock
  score,           \* gameState.score
  speed,           \* gameState.speed * SpeedDen
  framePending,    \* the frame request named by gameState.animationId is pending
  timers,          \* number of pending setTimeout callbacks of placeBlock
  drop,            \* the falling piece created last by createFallingPiece: <<>> or <<piece>>
  lastOp           \* history: which handler ran last and what it did

vars == <<blocks, stack, currentBlock, direction, gameEnded, isPlacingBlock,
          score, speed, framePending, timers, drop, lastOp>>

----------------------------------------------------------------------------
(* Bounds of the model *)

\* Successful placements the model follows (the script has no limit).
MaxPlacements == 2

\* Calls of addNewMovingBlock made from outside the game's own callbacks
\* (SpecSpawn).
MaxSpawnCalls == 1

(* Program constants *)

BOX_SIZE == 3
BOUNDS == 5
\* speeds are held in units of 1/SpeedDen: 0.08 and 0.002
SpeedDen == 500
INITIAL_SPEED == 40
SPEED_INCREASE == 1
\* the reference frame duration 16.67 ms and the cap 100 ms of animate, in
\* units of 1/600 ms
FRAME_MS == 10002
MAX_ELAPSED == 60000

NULL == 0

RECURSIVE Pow2(_)
Pow2(n) == IF n = 0 THEN 1 ELSE 2 * Pow2(n - 1)

Scale == Pow2(MaxPlacements)
PosUnit == SpeedDen * FRAME_MS * Scale

\* CONFIG.BOUNDS and CONFIG.BOX_SIZE in position units
Bound == BOUNDS * PosUnit
BoxSize == BOX_SIZE * PosUnit

Abs(n) == IF n < 0 THEN -n ELSE n
Min(a, b) == IF a < b THEN a ELSE b
Max(a, b) == IF a > b THEN a ELSE b

\* Input events of handleInput: the event type and, for keydown, the key code.
Events ==
  { [type |-> "keydown", code |-> "Space"], [type |-> "keydown", code |-> "KeyA"],
    [type |-> "touchstart", code |-> "none"], [type |-> "mousedown", code |-> "none"] }

\* Elapsed times currentTime - lastTime between two frames, in units of
\* 1/600 ms: none, and 69.4583 ms (dt = 25/6, a step of 1/3 at the initial
\* speed, so that the positions -3, 0, 2, 3 and 5 are met exactly).
Elapsed == {0, 41675}

----------------------------------------------------------------------------
(* addBlock: the block object it builds *)
Block(x, width, depth, moving) ==
  [x |-> x, width |-> width, depth |-> depth, moving |-> moving]

Top == blocks[stack[Len(stack)]]

(* addNewMovingBlock *)
addNewMovingBlock_Checked ==
  IF \E i \in DOMAIN blocks : blocks[i].moving
  THEN UNCHANGED <<blocks, currentBlock, isPlacingBlock>>
  ELSE LET lastBlock == Top
           newBlock == Block(-Bound, lastBlock.width, lastBlock.depth, TRUE)
       IN /\ blocks' = Append(blocks, newBlock)
          /\ currentBlock' = Len(blocks) + 1
          /\ isPlacingBlock' = FALSE

addNewMovingBlock_FullWidth ==
  LET newBlock == Block(-Bound, BoxSize, BoxSize, TRUE)
  IN /\ blocks' = Append(blocks, newBlock)
     /\ currentBlock' = Len(blocks) + 1
     /\ isPlacingBlock' = FALSE

addNewMovingBlock_NoReset ==
  LET lastBlock == Top
      newBlock == Block(-Bound, lastBlock.width, lastBlock.depth, TRUE)
  IN /\ blocks' = Append(blocks, newBlock)
     /\ currentBlock' = Len(blocks) + 1
     /\ isPlacingBlock' = isPlacingBlock

addNewMovingBlock ==
  LET lastBlock == Top
      newBlock == Block(-Bound, lastBlock.width, lastBlock.depth, TRUE)
  IN /\ blocks' = Append(blocks, newBlock)
     /\ currentBlock' = Len(blocks) + 1
     /\ isPlacingBlock' = FALSE

(* init: the base block, the first moving block, the first frame request *)
Init ==
  /\ blocks = << Block(0, BoxSize, BoxSize, FALSE),
                 Block(-Bound, BoxSize, BoxSize, TRUE) >>
  /\ stack = << 1 >>
  /\ currentBlock = 2
  /\ direction = 1
  /\ gameEnded = FALSE
  /\ isPlacingBlock = FALSE
  /\ score = 0
  /\ speed = INITIAL_SPEED
  /\ framePending = TRUE
  /\ timers = 0
  /\ drop = << >>
  /\ lastOp = "init"

(* createFallingPiece(blockDir, newWidth, overhang), called after the current
   block was trimmed: cur is the trimmed block.  The piece keeps the blockDir
   it was created with. *)
FallingPiece_OtherSide(cur, blockDir, newWidth, overhang) ==
  [x |-> cur.x - blockDir * ((newWidth + overhang) \div 2),
   width |-> overhang, blockDir |-> blockDir]

FallingPiece(cur, blockDir, newWidth, overhang) ==
  [x |-> cur.x + blockDir * ((newWidth + overhang) \div 2),
   width |-> overhang, blockDir |-> blockDir]

(* endGame: gameState.animationId names the pending frame request from init
   on, so the request is always cancelled *)
endGame_NoCancel ==
  /\ gameEnded' = TRUE
  /\ framePending' = framePending

endGame ==
  /\ gameEnded' = TRUE
  /\ framePending' = FALSE

(* placeBlock, its early return *)
PlaceRefused_NoDebounce == currentBlock = NULL \/ gameEnded

PlaceRefused == currentBlock = NULL \/ gameEnded \/ isPlacingBlock

(* placeBlock, the failure test *)
Failed_Strict(overhang, width) == overhang > width

Failed(overhang, width) == overhang >= width

(* placeBlock, the side of the overhang *)
BlockDir(delta) == IF delta > 0 THEN 1 ELSE -1

(* placeBlock, the current block after the trim *)
Trimmed_StillMoving(cur, delta) ==
  [cur EXCEPT !.x = cur.x - (delta \div 2), !.width = cur.width - Abs(delta)]

Trimmed_Snap(cur, delta) ==
  [cur EXCEPT !.moving = FALSE, !.x = cur.x - delta, !.width = cur.width - Abs(delta)]

Trimmed(cur, delta) ==
  [cur EXCEPT !.moving = FALSE,
              !.x = cur.x - (delta \div 2),
              !.width = cur.width - Abs(delta)]

(* updateScore *)
updateScore_StackLength == score' = Len(stack) + 1

updateScore == score' = score + 1

(* increaseDifficulty *)
increaseDifficulty_Minus == speed' = speed - SPEED_INCREASE

increaseDifficulty == speed' = speed + SPEED_INCREASE

(* placeBlock, from the trim to the setTimeout: a successful placement *)
PlaceSuccess_Unshift(cur, delta) ==
  LET overhang == Abs(delta)
      newWidth == cur.width - overhang
      trimmed == Trimmed(cur, delta)
  IN /\ score < MaxPlacements
     /\ isPlacingBlock' = TRUE
     /\ blocks' = [blocks EXCEPT ![currentBlock] = trimmed]
     /\ drop' = << FallingPiece(trimmed, BlockDir(delta), newWidth, overhang) >>
     /\ stack' = << currentBlock >> \o stack
     /\ updateScore
     /\ increaseDifficulty
     /\ timers' = timers + 1
     /\ lastOp' = "placed"
     /\ UNCHANGED <<currentBlock, direction, gameEnded, framePending>>

PlaceSuccess(cur, delta) ==
  LET overhang == Abs(delta)
      newWidth == cur.width - overhang
      trimmed == Trimmed(cur, delta)
  IN /\ score < MaxPlacements
     /\ isPlacingBlock' = TRUE
     /\ blocks' = [blocks EXCEPT ![currentBlock] = trimmed]
     /\ drop' = << FallingPiece(trimmed, BlockDir(delta), newWidth, overhang) >>
     /\ stack' = Append(stack, currentBlock)
     /\ updateScore
     /\ increaseDifficulty
     /\ timers' = timers + 1
     /\ lastOp' = "placed"
     /\ UNCHANGED <<currentBlock, direction, gameEnded, framePending>>

(* placeBlock, the failure branch: return endGame() *)
PlaceFail_FallThrough(cur, delta) ==
  LET overhang == Abs(delta)
      newWidth == cur.width - overhang
      trimmed == Trimmed(cur, delta)
  IN /\ isPlacingBlock' = TRUE
     /\ endGame
     /\ blocks' = [blocks EXCEPT ![currentBlock] = trimmed]
     /\ drop' = << FallingPiece(trimmed, BlockDir(delta), newWidth, overhang) >>
     /\ stack' = Append(stack, currentBlock)
     /\ updateScore
     /\ increaseDifficulty
     /\ timers' = timers + 1
     /\ lastOp' = "failed"
     /\ UNCHANGED <<currentBlock, direction>>

PlaceFail(cur, delta) ==
  /\ isPlacingBlock' = TRUE
  /\ blocks' = [blocks EXCEPT ![currentBlock].moving = FALSE]
  /\ endGame
  /\ lastOp' = "failed"
  /\ UNCHANGED <<stack, currentBlock, direction, score, speed, timers, drop>>

(* placeBlock *)
placeBlock ==
  IF PlaceRefused
  THEN /\ lastOp' = "ignored"
       /\ UNCHANGED <<blocks, stack, currentBlock, direction, gameEnded,
                      isPlacingBlock, score, speed, framePending, timers, drop>>
  ELSE LET cur == blocks[currentBlock]
           prev == Top
           delta == cur.x - prev.x
           overhang == Abs(delta)
       IN IF Failed(overhang, cur.width)
          THEN PlaceFail(cur, delta)
          ELSE PlaceSuccess(cur, delta)

(* handleInput(e) *)
HandleInput_AssignInTest(e) ==
  IF e.type = "keydown" /\ e.code # "Space"
  THEN /\ lastOp' = "otherkey"
       /\ UNCHANGED <<blocks, stack, currentBlock, direction, gameEnded,
                      isPlacingBlock, score, speed, framePending, timers, drop>>
  ELSE \* if (!(gameState.gameEnded = false) && !gameState.isPlacingBlock)
       IF ~isPlacingBlock
       THEN placeBlock
       ELSE /\ gameEnded' = FALSE
            /\ lastOp' = "ignored"
            /\ UNCHANGED <<blocks, stack, currentBlock, direction,
                           isPlacingBlock, score, speed, framePending, timers, drop>>

HandleInput(e) ==
  IF e.type = "keydown" /\ e.code # "Space"
  THEN /\ lastOp' = "otherkey"
       /\ UNCHANGED <<blocks, stack, currentBlock, direction, gameEnded,
                      isPlacingBlock, score, speed, framePending, timers, drop>>
  ELSE IF ~gameEnded /\ ~isPlacingBlock
       THEN placeBlock
       ELSE /\ lastOp' = "ignored"
            /\ UNCHANGED <<blocks, stack, currentBlock, direction, gameEnded,
                           isPlacingBlock, score, speed, framePending, timers, drop>>

(* the setTimeout callback of placeBlock *)
SpawnTimer_Inverted ==
  /\ timers > 0
  /\ timers' = timers - 1
  /\ IF gameEnded
     THEN /\ addNewMovingBlock
          /\ lastOp' = "spawn"
     ELSE /\ lastOp' = "nospawn"
          /\ UNCHANGED <<blocks, currentBlock, isPlacingBlock>>
  /\ UNCHANGED <<stack, direction, gameEnded, score, speed, framePending, drop>>

SpawnTimer ==
  /\ timers > 0
  /\ timers' = timers - 1
  /\ IF ~gameEnded
     THEN /\ addNewMovingBlock
          /\ lastOp' = "spawn"
     ELSE /\ lastOp' = "nospawn"
          /\ UNCHANGED <<blocks, currentBlock, isPlacingBlock>>
  /\ UNCHANGED <<stack, direction, gameEnded, score, speed, framePending, drop>>

(* animate: deltaTime = Math.min(currentTime - lastTime, 100) / 16.67, held
   as its numerator *)
DeltaTime(elapsed) == Min(elapsed, MAX_ELAPSED)

(* moveCurrentBlock(deltaTime): the position and direction it leaves *)
Advance_AtBound(x, spd, dir, dt) ==
  LET nx == x + spd * dir * dt * Scale
  IN IF Abs(nx) >= Bound
     THEN [x |-> Max(-Bound, Min(Bound, nx)), direction |-> -dir, reversed |-> TRUE]
     ELSE [x |-> nx, direction |-> dir, reversed |-> FALSE]

Advance_NoClamp(x, spd, dir, dt) ==
  LET nx == x + spd * dir * dt * Scale
  IN IF Abs(nx) > Bound
     THEN [x |-> nx, direction |-> -dir, reversed |-> TRUE]
     ELSE [x |-> nx, direction |-> dir, reversed |-> FALSE]

Advance(x, spd, dir, dt) ==
  LET nx == x + spd * dir * dt * Scale
  IN IF Abs(nx) > Bound
     THEN [x |-> Max(-Bound, Min(Bound, nx)), direction |-> -dir, reversed |-> TRUE]
     ELSE [x |-> nx, direction |-> dir, reversed |-> FALSE]

moveCurrentBlock_NoMovingTest(dt) ==
  IF currentBlock = NULL \/ gameEnded
  THEN /\ lastOp' = "idle"
       /\ UNCHANGED <<blocks, direction>>
  ELSE LET a == Advance(blocks[currentBlock].x, speed, direction, dt)
       IN /\ blocks' = [blocks EXCEPT ![currentBlock].x = a.x]
          /\ direction' = a.direction
          /\ lastOp' = IF a.reversed THEN "reverse" ELSE "tick"

moveCurrentBlock(dt) ==
  IF currentBlock = NULL \/ ~blocks[currentBlock].moving \/ gameEnded
  THEN /\ lastOp' = "idle"
       /\ UNCHANGED <<blocks, direction>>
  ELSE LET a == Advance(blocks[currentBlock].x, speed, direction, dt)
       IN /\ blocks' = [blocks EXCEPT ![currentBlock].x = a.x]
          /\ direction' = a.direction
          /\ lastOp' = IF a.reversed THEN "reverse" ELSE "tick"

(* updateGame(deltaTime) *)
updateGame(dt) ==
  IF gameEnded
  THEN /\ lastOp' = "idle"
       /\ UNCHANGED <<blocks, direction>>
  ELSE moveCurrentBlock(dt)

(* animate(currentTime): one frame *)
Animate(elapsed) ==
  /\ framePending
  /\ framePending' = TRUE
  /\ updateGame(DeltaTime(elapsed))
  /\ UNCHANGED <<stack, currentBlock, gameEnded, isPlacingBlock, score, speed,
                 timers, drop>>

(* The callbacks the host may run: a place request (placeBlock itself, the
   place operation, and the input events that reach it through handleInput),
   the deferred spawn, and a frame. *)
Next ==
  \/ placeBlock
  \/ \E e \in Events : HandleInput(e)
  \/ SpawnTimer
  \/ \E el \in Elapsed : Animate(el)

Spec == Init /\ [][Next]_vars

\* The host runs a setTimeout callback once its delay has passed.
SpecLive == Init /\ [][Next]_vars /\ WF_vars(SpawnTimer)

(* moveCurrentBlock taken alone, from every position of the first block on a
   grid of 0.02 and either direction: with real-valued frame gaps each of them
   is met before the first placement *)
MotionPositions == { k * (PosUnit \div 50) : k \in (-50 * BOUNDS)..(50 * BOUNDS) }

\* frame gaps of 16.67 ms (dt = 1), 33.34 ms (dt = 2) and 250 ms (capped)
ElapsedMotion == {FRAME_MS, 2 * FRAME_MS, 150000}

InitMotion ==
  /\ \E x \in MotionPositions :
       blocks = << Block(0, BoxSize, BoxSize, FALSE), Block(x, BoxSize, BoxSize, TRUE) >>
  /\ stack = << 1 >>
  /\ currentBlock = 2
  /\ direction \in {-1, 1}
  /\ gameEnded = FALSE
  /\ isPlacingBlock = FALSE
  /\ score = 0
  /\ speed = INITIAL_SPEED
  /\ framePending = TRUE
  /\ timers = 0
  /\ drop = << >>
  /\ lastOp = "init"

NextMotion == \E el \in ElapsedMotion : Animate(el)

SpecMotion == InitMotion /\ [][NextMotion]_vars

(* addNewMovingBlock taken as an operation of its own (spawnNext): called at
   any moment between frames before the first placement, that is, while the
   first block is active. *)
CallSpawn ==
  /\ Len(blocks) < 2 + MaxSpawnCalls
  /\ addNewMovingBlock
  /\ lastOp' = "spawncall"
  /\ UNCHANGED <<stack, direction, gameEnded, score, speed, framePending,
                 timers, drop>>

NextSpawn ==
  \/ CallSpawn
  \/ \E el \in Elapsed : Animate(el)

SpecSpawn == Init /\ [][NextSpawn]_vars

----------------------------------------------------------------------------
(* Properties *)

MovingBlocks == { i \in DOMAIN blocks : blocks[i].moving }

\* A step in which placeBlock passes its early return: the latch is set.
Accepted == ~isPlacingBlock /\ isPlacingBlock'

\* A place request: placeBlock called, or an input event handled.
PlaceRequest == placeBlock \/ \E e \in Events : HandleInput(e)

\* C1: a place request issued while isPlacingBlock is true changes nothing of
\* the game (stack, score, speed, current block, any block), and the deferred
\* spawn that ends the window replays no request: it leaves the stack, the
\* score and the speed alone and hands over a moving block that is not placed.
C1_Debounce ==
  [][ /\ (isPlacingBlock /\ PlaceRequest) =>
           UNCHANGED <<blocks, stack, currentBlock, direction, gameEnded,
                       isPlacingBlock, score, speed, framePending, timers, drop>>
      /\ SpawnTimer =>
           /\ UNCHANGED <<stack, score, speed, drop>>
           /\ blocks'[currentBlock'].moving
           /\ ~isPlacingBlock' ]_vars

\* a place request was just ignored between a placement and its spawn
C1_Witness ==
  /\ lastOp = "ignored"
  /\ isPlacingBlock /\ ~gameEnded /\ timers = 1
  /\ score >= 1

\* C2: an accepted placement ends the game exactly when the overhang
\* |moving x - top x| is at least the moving block's width.
C2_FailIffOverhang ==
  [][ Accepted =>
        (gameEnded' <=>
           Abs(blocks[currentBlock].x - Top.x) >= blocks[currentBlock].width) ]_vars

\* a placement failed on an exact tie, overhang = width
C2_Witness ==
  /\ lastOp = "failed" /\ gameEnded
  /\ Abs(blocks[currentBlock].x - Top.x) = blocks[currentBlock].width

\* C3: a successful placement leaves the block with width - overhang, centred
\* at x - (x - base x) / 2, and trims on side +1 when x > base x, else -1.
C3_Trim ==
  [][ (Accepted /\ ~gameEnded') =>
        LET cur == blocks[currentBlock]
            delta == cur.x - Top.x
            placed == blocks'[currentBlock]
        IN /\ Abs(delta) < cur.width
           /\ placed.width = cur.width - Abs(delta)
           /\ 2 * (cur.x - placed.x) = delta
           /\ drop'[1].blockDir = (IF cur.x > Top.x THEN 1 ELSE -1) ]_vars

\* a perfect placement (delta = 0) was trimmed on side -1
C3_Witness ==
  /\ lastOp = "placed"
  /\ drop # << >> /\ drop[1].width = 0 /\ drop[1].blockDir = -1
  /\ Top.width = BoxSize

\* C4: once gameEnded is true it stays true, and from then on no step (tick,
\* place input, timer callback) changes the stack, the score, the speed, the
\* direction or any block.
C4_EndedAbsorbing ==
  [][ gameEnded =>
        /\ gameEnded'
        /\ UNCHANGED <<blocks, stack, score, speed, direction>> ]_vars

\* the game is over and a place input was handled after that
C4_Witness == gameEnded /\ lastOp = "ignored"

\* C5: the score changes only by +1 and only in a successful placement (an
\* accepted placement that does not end the game and appends to the stack);
\* the speed never decreases.
C5_ScoreSpeedMonotone ==
  [][ /\ score' # score =>
           /\ score' = score + 1
           /\ Accepted /\ ~gameEnded'
           /\ lastOp' = "placed"
           /\ Len(stack') = Len(stack) + 1
      /\ speed' >= speed ]_vars

\* two successful placements were made
C5_Witness == lastOp = "placed" /\ score = 2 /\ speed = INITIAL_SPEED + 2 * SPEED_INCREASE

\* C6: a tick that moves the active block flips the direction exactly when
\* |position + speed * direction * dt| > BOUNDS, and then leaves the position
\* within [-BOUNDS, BOUNDS]; from 4.9 at speed 0.08, direction +1, dt = 2 the
\* direction becomes -1 and the position 5.
C6_ReverseAtBounds ==
  [][ \A el \in ElapsedMotion :
        (Animate(el) /\ blocks[currentBlock].moving /\ ~gameEnded) =>
          LET x == blocks[currentBlock].x
              nx == x + speed * direction * Min(el, MAX_ELAPSED) * Scale
              x1 == blocks'[currentBlock].x
          IN /\ direction' = -direction <=> Abs(nx) > Bound
             /\ direction' = direction <=> Abs(nx) <= Bound
             /\ direction' # direction => (-Bound <= x1 /\ x1 <= Bound)
             /\ (/\ 10 * x = 49 * PosUnit
                 /\ speed = INITIAL_SPEED /\ direction = 1 /\ el = 2 * FRAME_MS)
                  => (direction' = -1 /\ x1 = Bound) ]_vars

\* a tick brought the block exactly onto +BOUNDS and did not reverse it
C6_Witness ==
  /\ lastOp = "tick"
  /\ blocks[currentBlock].x = Bound /\ direction = 1

\* C7: a failed placement leaves the stack, every stacked block, the score
\* and the speed as they were; the failed block is not appended.
C7_FailKeepsStack ==
  [][ (Accepted /\ gameEnded') =>
        /\ UNCHANGED <<stack, score, speed>>
        /\ \A i \in 1..Len(stack) : blocks'[stack[i]] = blocks[stack[i]]
        /\ \A i \in 1..Len(stack') : stack'[i] # currentBlock ]_vars

\* a placement failed on a stack of two blocks
C7_Witness == lastOp = "failed" /\ Len(stack) = 2 /\ score = 1

\* C8: at most one block is moving, it is the current block, no stacked block
\* is moving, and none is moving once the game is over.
C8_OneMoving ==
  /\ Cardinality(MovingBlocks) <= 1
  /\ MovingBlocks \subseteq {currentBlock}
  /\ \A i \in 1..Len(stack) : ~blocks[stack[i]].moving
  /\ gameEnded => MovingBlocks = {}

\* a block is moving above a stack that holds a placed block
C8_Witness ==
  /\ lastOp = "spawn" /\ Len(stack) = 2
  /\ MovingBlocks = {currentBlock}

\* C9 as claimed: whenever isPlacingBlock is true a deferred spawn is pending.
C9_PlacingImpliesSpawnPending == isPlacingBlock => timers > 0

\* C9 amended: while the game has not ended, isPlacingBlock is true only
\* between a placement and its spawn: exactly one deferred spawn is pending
\* and no block is moving; and no spawn is pending when it is false.
C9_PlacingWindow ==
  /\ (isPlacingBlock /\ ~gameEnded) => (timers = 1 /\ MovingBlocks = {})
  /\ ~isPlacingBlock => timers = 0

\* a placement succeeded and its spawn is pending
C9_Witness == isPlacingBlock /\ ~gameEnded /\ timers = 1 /\ lastOp = "placed"

\* C10: after a successful placement the session is eventually back in
\* Running: a new block is moving and isPlacingBlock is false.
C10_SpawnFollows ==
  (isPlacingBlock /\ ~gameEnded) ~>
    (~isPlacingBlock /\ ~gameEnded /\ MovingBlocks = {currentBlock})

\* the spawn after the second placement has run
C10_Witness ==
  /\ lastOp = "spawn" /\ score = 2
  /\ ~isPlacingBlock /\ MovingBlocks = {currentBlock}

\* A step in which addNewMovingBlock runs: a block object is created.
SpawnStep == Len(blocks') > Len(blocks)

\* C11: addNewMovingBlock never runs in an ended session: a block is created
\* only in a step that starts and ends with the game running, and no deferred
\* spawn is ever pending once the game has ended.
C11_NoSpawnWhenEnded ==
  [][ /\ SpawnStep => (~gameEnded /\ ~gameEnded')
      /\ gameEnded' => timers' = 0 ]_vars

\* the game ended after a deferred spawn had run, and none is pending
C11_Witness ==
  /\ gameEnded /\ timers = 0
  /\ Len(blocks) >= 3 /\ ~blocks[currentBlock].moving

\* C12: ending the game cancels the pending frame request, and no frame
\* (animate) runs from a state in which the game has ended.
C12_LoopStops ==
  [][ /\ gameEnded' => ~framePending'
      /\ gameEnded => ~(\E el \in Elapsed : Animate(el)) ]_vars

\* endGame has just run and no frame request is left
C12_Witness == lastOp = "failed" /\ gameEnded /\ ~framePending

\* the base block that init pushes
BaseBlock == Block(0, BoxSize, BoxSize, FALSE)

\* C13: the stack only grows at its end, by one block per step; its first
\* entry is always the base block (width BOX_SIZE, x = 0); a stacked block's
\* width and position never change.
C13_AppendOnly ==
  /\ blocks[stack[1]] = BaseBlock
  /\ [][ /\ stack' = stack \/ \E b \in DOMAIN blocks : stack' = Append(stack, b)
         /\ blocks'[stack'[1]] = BaseBlock
         /\ \A i \in 1..Len(stack) :
              /\ blocks'[stack[i]].width = blocks[stack[i]].width
              /\ blocks'[stack[i]].x = blocks[stack[i]].x ]_vars

\* two blocks were appended above the base and a block moved after that
C13_Witness ==
  /\ Len(stack) = 3 /\ stack = << 1, 2, 3 >>
  /\ lastOp = "tick"

\* C14: every block (base, stacked, current, also a block that failed) has
\* width > 0 and depth > 0.
C14_PositiveSize ==
  \A i \in DOMAIN blocks : blocks[i].width > 0 /\ blocks[i].depth > 0

\* a block was trimmed to less than a tenth of the base width
C14_Witness ==
  /\ lastOp = "placed"
  /\ 0 < Top.width /\ 10 * Top.width < BoxSize

\* C15 as claimed: addNewMovingBlock called while a block is moving fails and
\* creates or replaces nothing.
C15_SpawnRefusedWhenActive ==
  [][ (CallSpawn /\ MovingBlocks # {}) => UNCHANGED <<blocks, currentBlock>> ]_vars

\* C15 amended: addNewMovingBlock called while a block is moving does not
\* fail: it creates a moving block at -BOUNDS with the top block's width and
\* depth, makes it the current block and clears isPlacingBlock; the block that
\* was active is left as it was, still moving.
C15_SpawnReplacesActive ==
  [][ (CallSpawn /\ MovingBlocks # {}) =>
        /\ Len(blocks') = Len(blocks) + 1
        /\ \A i \in DOMAIN blocks : blocks'[i] = blocks[i]
        /\ currentBlock' = Len(blocks') /\ currentBlock' # currentBlock
        /\ blocks'[currentBlock'] = Block(-Bound, Top.width, Top.depth, TRUE)
        /\ ~isPlacingBlock' ]_vars

\* addNewMovingBlock was called while a block was active: two blocks are moving
C15_Witness ==
  /\ lastOp = "spawncall"
  /\ Cardinality(MovingBlocks) = 2 /\ currentBlock = 3

C17_NoMotionWithoutActive ==
  [][ ((\E el \in Elapsed : Animate(el)) /\ (gameEnded \/ MovingBlocks = {})) =>
        UNCHANGED <<direction, blocks>> ]_vars

\* a frame ran between a placement and its spawn and moved nothing
C17_Witness ==
  /\ lastOp = "idle"
  /\ isPlacingBlock /\ timers = 1 /\ currentBlock = stack[Len(stack)]

\* C18: in a successful placement the kept block and the falling piece split
\* the moving block's extent [x - w/2, x + w/2]: the piece has width overhang
\* and centre kept x + dir * (newWidth/2 + overhang/2), touches the kept block,
\* lies on the side away from the base block, and newWidth + overhang = w.
C18_DebrisPartition ==
  [][ (Accepted /\ ~gameEnded') =>
        LET cur == blocks[currentBlock]
            base == Top
            overhang == Abs(cur.x - base.x)
            dir == IF cur.x > base.x THEN 1 ELSE -1
            kept == blocks'[currentBlock]
            piece == drop'[1]
        IN /\ piece.width = overhang
           /\ kept.width + piece.width = cur.width
           /\ 2 * piece.x = 2 * kept.x + dir * (kept.width + overhang)
           \* the piece touches the kept block
           /\ 2 * piece.x - dir * piece.width = 2 * kept.x + dir * kept.width
           \* together they cover the extent of the moving block
           /\ 2 * piece.x + dir * piece.width = 2 * cur.x + dir * cur.width
           /\ 2 * kept.x - dir * kept.width = 2 * cur.x - dir * cur.width
           \* the piece is on the side away from the base block
           /\ dir * (piece.x - base.x) >= dir * (kept.x - base.x)
           /\ dir * (kept.x - base.x) >= 0 ]_vars

\* a block that stood to the right of the top block was trimmed on the right
C18_Witness ==
  /\ lastOp = "placed"
  /\ drop # << >> /\ drop[1].width > 0 /\ drop[1].blockDir = 1
  /\ drop[1].x > Top.x

\* C19: every stacked block lies within the extent of the block beneath it,
\* so the widths do not increase up the stack; a moving block has the width
\* of the top block.
C19_Nested ==
  /\ \A i \in 2..Len(stack) :
       LET b == blocks[stack[i]]
           below == blocks[stack[i - 1]]
       IN /\ 2 * b.x - b.width >= 2 * below.x - below.width
          /\ 2 * b.x + b.width <= 2 * below.x + below.width
          /\ b.width <= below.width
  /\ \A i \in MovingBlocks : blocks[i].width = Top.width

\* a stack of three blocks of strictly decreasing width
C19_Witness ==
  /\ Len(stack) = 3
  /\ blocks[stack[3]].width < blocks[stack[2]].width
  /\ blocks[stack[2]].width < blocks[stack[1]].width

\* C20: every block's position stays within [-BOUNDS, BOUNDS] and the
\* direction is -1 or +1.
C20_WithinBounds ==
  /\ \A i \in DOMAIN blocks : -Bound <= blocks[i].x /\ blocks[i].x <= Bound
  /\ direction \in {-1, 1}

\* a block was spawned at -BOUNDS while the direction was still -1
C20_Witness ==
  /\ lastOp = "spawn"
  /\ direction = -1 /\ blocks[currentBlock].x = -Bound

====
